---- MODULE Spec2Model ----
(***************************************************************************)
(* Model of the two pieces of local logic of the upcycling backend:        *)
(*   - waste_analysis.py: sanitize_response and the validation pass of     *)
(*     WasteAnalyzer.generate_suggestions;                                 *)
(*   - apply_migrations.py: the migration runner apply_migrations.         *)
(*                                                                         *)
(* Python strings are sequences of one-character tokens, indexed from 0    *)
(* by the operators below as Python indexes them.  Python's None is the    *)
(* value None, a sequence no text can equal.                               *)
(***************************************************************************)
EXTENDS Integers, Sequences, FiniteSets, TLC

VARIABLES
    \* ---- waste_analysis.py ----
    response_text,   \* the text handed to sanitize_response / returned by the model
    payload,         \* what the token "#" of response_text stands for (members of the object)
    call_error,      \* what raises before a response is there ("none": nothing)
    sanPc,           \* "call" before sanitize_response ran, "ret" after, "again" after
                     \* it ran on its own return value
    sanitized,       \* return value of sanitize_response
    genPc,           \* "call" before generate_suggestions ran, "ret" after
    result,          \* return value of generate_suggestions
    \* ---- apply_migrations.py ----
    dir,             \* file names in supabase/migrations
    tableExists,     \* applied_migrations exists
    rows,            \* applied_migrations: number of rows per migration_name
    committedSql,    \* files whose SQL was executed and committed
    pc,              \* position of each run of apply_migrations
    db_url,          \* os.getenv('DATABASE_URL') of each run, "" when not set
    conn,            \* "none" | "open" | "closed"   (local conn of each run)
    cur,             \* "none" | "open" | "closed"   (local cur of each run)
    migration_files, \* sorted list of the *.sql names
    applied,         \* names selected from applied_migrations
    idx,             \* position of the for loop in migration_files
    exc,             \* exception propagating out of the run, "none" if none
    raised,          \* exception the last statement of the run raised, "none" if none
    rolledBack,      \* files whose migration transaction the run rolled back
    lastLog,         \* last record the run sent to the logger
    executed,        \* files whose SQL the run handed to cur.execute, in order
    recorded,        \* files the run inserted into applied_migrations
    runs,            \* completed calls of apply_migrations per runner
    lastExit         \* what the last completed call raised ("none": returned)

sanVars == <<response_text, payload, call_error, sanPc, sanitized, genPc, result>>
migVars == <<dir, tableExists, rows, committedSql, pc, db_url, conn, cur, migration_files,
             applied, idx, exc, raised, rolledBack, lastLog, executed, recorded, runs, lastExit>>
vars == <<sanVars, migVars>>

----------------------------------------------------------------------------
(* Bounds *)
MaxLen == 4          \* longest text handed to sanitize_response alone
NumFiles == 3        \* *.sql files that may be in the migrations directory
MaxRuns == 2         \* calls of apply_migrations per runner
MaxMissing == 1      \* required fields a suggestion of the model output may lack

----------------------------------------------------------------------------
(* Python values *)
None == <<"None">>

Chars == {"{", "}", "x"}

\* str.find(ch): lowest 0-based index of ch, -1 when absent
find(s, ch) ==
    IF \E i \in 1..Len(s) : s[i] = ch
    THEN (CHOOSE i \in 1..Len(s) : s[i] = ch /\ \A j \in 1..(i-1) : s[j] # ch) - 1
    ELSE -1

\* rfind taken for find: the first occurrence instead of the last
rfind_first(s, ch) == find(s, ch)

\* str.rfind(ch): highest 0-based index of ch, -1 when absent
rfind(s, ch) ==
    IF \E i \in 1..Len(s) : s[i] = ch
    THEN (CHOOSE i \in 1..Len(s) : s[i] = ch /\ \A j \in (i+1)..Len(s) : s[j] # ch) - 1
    ELSE -1

\* s[a:b] for a >= 0, b >= 0: the characters at 0-based positions a .. b-1
Slice(s, a, b) ==
    LET hi == IF b > Len(s) THEN Len(s) ELSE b
    IN  IF hi <= a THEN <<>> ELSE [k \in 1..(hi - a) |-> s[a + k]]

\* what an operator returns when the Python function raises AttributeError
AttributeError == <<"AttributeError">>

sanitize_response(text) ==
    IF text = None
    THEN AttributeError          \* None has no attribute find
    ELSE
    LET start_idx == find(text, "{")
        end_idx   == rfind(text, "}") + 1
    IN  IF start_idx # -1 /\ end_idx # -1
        THEN Slice(text, start_idx, end_idx)
        ELSE None                \* the function falls off its end

----------------------------------------------------------------------------
(* JSON values of the model output.                                        *)
(* A field value is one of the strings of JsonVals, named by its JSON type.*)
(* An element of 'suggestions' is [kind, fields]: fields maps the keys of  *)
(* an object to their values and is empty for the other kinds.             *)

required_fields ==
    << "id", "title", "description", "difficulty", "timeRequired",
       "tools", "materials", "estimatedCost", "steps", "safetyTips",
       "ecoImpact", "videoSearchQuery" >>

StringFields ==
    {"id", "title", "description", "difficulty", "timeRequired",
     "estimatedCost", "videoSearchQuery"}

Fields == {required_fields[k] : k \in 1..Len(required_fields)}

EmptyStr == "str:"
EmptyList == "list:[]"
DefaultEcoImpact == "dict:{co2Saved:0.0,wasteReduced:0.0,energySaved:0.0}"
JsonVals == {EmptyStr, "str:a", EmptyList, "list:[a]", "dict:{co2Saved:0.2}",
             DefaultEcoImpact, "num:1", "null"}

\* isinstance(v, dict)
IsDict(v) == v \in {"dict:{co2Saved:0.2}", DefaultEcoImpact}

NoFields == [f \in {} |-> EmptyStr]
StrItem == [kind |-> "str", fields |-> NoFields]
NumItem == [kind |-> "num", fields |-> NoFields]
ListItem == [kind |-> "list", fields |-> NoFields]

\* suggestion[field] = value
SetField(suggestion, field, value) ==
    [g \in (DOMAIN suggestion) \cup {field} |->
        IF g = field THEN value ELSE suggestion[g]]

\* every missing field defaulted to ''
FieldDefault_str(field) == EmptyStr

\* the value a missing required field is set to
FieldDefault(field) ==
    IF field \in StringFields THEN EmptyStr ELSE EmptyList

\* for field in required_fields: if field not in suggestion: ...
RECURSIVE FillRequired(_, _)
FillRequired(suggestion, k) ==
    IF k > Len(required_fields)
    THEN suggestion
    ELSE LET field == required_fields[k]
         IN  FillRequired(IF field \notin DOMAIN suggestion
                          THEN SetField(suggestion, field, FieldDefault(field))
                          ELSE suggestion,
                          k + 1)

\* if 'ecoImpact' not in suggestion or not isinstance(..., dict): ...
FixEcoImpact(suggestion) ==
    IF "ecoImpact" \notin DOMAIN suggestion \/ ~IsDict(suggestion["ecoImpact"])
    THEN SetField(suggestion, "ecoImpact", DefaultEcoImpact)
    ELSE suggestion

\* body of the for loop over suggestions_data['suggestions'], for an object
EnsureFields(suggestion) == FixEcoImpact(FillRequired(suggestion, 1))

----------------------------------------------------------------------------
(* The response text of generate_suggestions.                              *)
(* Its tokens are "{", "}", "[", "]", ",", "5" (a number), "x" (any other  *)
(* character) and "#", which stands for the members of one JSON object:    *)
(* the variable payload says which.  A "#" is always between a "{" and a   *)
(* "}", so the braces nested in it are never the first "{" nor the last    *)
(* "}" of the text.                                                        *)

NoSuggestions == [kind |-> "absent", items |-> <<>>]
EmptyMembers == [hasSuggestions |-> FALSE, suggestions |-> NoSuggestions]

\* one JSON value at the head of t: the number of tokens it takes, 0 if none
ValueLen(t) ==
    IF Len(t) >= 3 /\ t[1] = "{" /\ t[2] = "#" /\ t[3] = "}" THEN 3
    ELSE IF Len(t) >= 2 /\ t[1] = "{" /\ t[2] = "}" THEN 2
    ELSE IF Len(t) >= 1 /\ t[1] = "5" THEN 1
    ELSE 0

\* t is a comma-separated, non-empty list of JSON values
RECURSIVE IsElements(_)
IsElements(t) ==
    LET n == ValueLen(t)
    IN  /\ n > 0
        /\ \/ Len(t) = n
           \/ /\ Len(t) > n + 1
              /\ t[n + 1] = ","
              /\ IsElements(SubSeq(t, n + 2, Len(t)))

\* json.loads(text): [raises, type, members]
json_loads(text, members) ==
    IF text = None
    THEN [raises |-> "TypeError", type |-> "none", members |-> EmptyMembers]
    ELSE IF text = <<"{", "#", "}">>
    THEN [raises |-> "none", type |-> "dict", members |-> members]
    ELSE IF text = <<"{", "}">>
    THEN [raises |-> "none", type |-> "dict", members |-> EmptyMembers]
    ELSE IF text = <<"5">>
    THEN [raises |-> "none", type |-> "num", members |-> EmptyMembers]
    ELSE IF /\ Len(text) >= 2 /\ text[1] = "[" /\ text[Len(text)] = "]"
            /\ (Len(text) = 2 \/ IsElements(SubSeq(text, 2, Len(text) - 1)))
    THEN [raises |-> "none", type |-> "list", members |-> EmptyMembers]
    ELSE [raises |-> "JSONDecodeError", type |-> "none", members |-> EmptyMembers]

\* the for loop over suggestions_data['suggestions'] from its k-th element:
\* [raises, items], items being the elements after the loop
RECURSIVE ForSuggestions(_, _)
ForSuggestions(items, k) ==
    IF k > Len(items)
    THEN [raises |-> "none", items |-> items]
    ELSE IF items[k].kind # "dict"
    THEN [raises |-> "TypeError", items |-> items]
    ELSE ForSuggestions(
            [items EXCEPT ![k] = [kind |-> "dict",
                                  fields |-> EnsureFields(items[k].fields)]],
            k + 1)

Returned(success, suggestions, error) ==
    [success |-> success, suggestions |-> suggestions, error |-> error]

generate_suggestions(callError, text, members) ==
    IF callError # "none"
    THEN Returned(FALSE, NoSuggestions, callError)
    ELSE
    LET clean == sanitize_response(text)
    IN  IF clean = AttributeError
        THEN Returned(FALSE, NoSuggestions, "AttributeError")
        ELSE
        LET suggestions_data == json_loads(clean, members)
        IN  IF suggestions_data.raises = "JSONDecodeError"
            THEN Returned(FALSE, NoSuggestions, "Failed to generate valid suggestions")
            ELSE IF suggestions_data.raises # "none"
            THEN Returned(FALSE, NoSuggestions, suggestions_data.raises)
            ELSE IF suggestions_data.type # "dict"
                    \/ ~suggestions_data.members.hasSuggestions
            THEN Returned(FALSE, NoSuggestions, "Invalid response format")
            ELSE
            LET suggestions == suggestions_data.members.suggestions
            IN  IF suggestions.kind \in {"num", "null"}
                THEN Returned(FALSE, NoSuggestions, "TypeError")
                ELSE
                LET done == ForSuggestions(suggestions.items, 1)
                IN  IF done.raises # "none"
                    THEN Returned(FALSE, NoSuggestions, done.raises)
                    ELSE Returned(TRUE,
                                  [kind |-> suggestions.kind, items |-> done.items],
                                  "")

----------------------------------------------------------------------------
(* Inputs *)

\* every text of at most n characters of Chars
RECURSIVE Texts(_)
Texts(n) ==
    IF n = 0 THEN {<<>>}
    ELSE LET shorter == Texts(n - 1)
         IN  shorter \cup {Append(t, c) : t \in shorter, c \in Chars}

\* the value the model gives a field when it gives the expected JSON type
Typical(field) ==
    IF field \in StringFields THEN "str:a"
    ELSE IF field = "ecoImpact" THEN "dict:{co2Saved:0.2}"
    ELSE "list:[a]"

\* the sets of required fields a suggestion object may lack
MissingSets ==
    {M \in SUBSET Fields : Cardinality(M) <= MaxMissing} \cup {Fields}

\* suggestion objects: all fields but those of M, typical values but for
\* ecoImpact (eco) and for the field odd, which is a number
SuggestionObject(M, eco, odd) ==
    [kind |-> "dict",
     fields |-> [f \in Fields \ M |->
                    IF f = "ecoImpact" THEN eco
                    ELSE IF f = odd THEN "num:1"
                    ELSE Typical(f)]]

EcoVals == {"dict:{co2Saved:0.2}", DefaultEcoImpact, "str:a", "null", EmptyList}

SuggestionObjects ==
    {SuggestionObject(M, eco, odd) :
        M \in MissingSets, eco \in EcoVals, odd \in {"none", "id", "tools"}}

FewItems ==
    {SuggestionObject({}, "dict:{co2Saved:0.2}", "none"),
     SuggestionObject({"steps"}, "str:a", "none"),
     StrItem, NumItem, ListItem}

\* values of the key 'suggestions'
SuggestionLists ==
    {[kind |-> "list", items |-> <<>>]}
    \cup {[kind |-> "list", items |-> <<i>>] : i \in SuggestionObjects \cup FewItems}
    \cup {[kind |-> "list", items |-> <<i, j>>] : i \in SuggestionObjects, j \in FewItems}

OtherSuggestions ==
    {[kind |-> "num", items |-> <<>>], [kind |-> "null", items |-> <<>>],
     [kind |-> "str", items |-> <<>>], [kind |-> "str", items |-> <<StrItem>>],
     [kind |-> "dict", items |-> <<>>], [kind |-> "dict", items |-> <<StrItem>>]}

Payloads ==
    {EmptyMembers}
    \cup {[hasSuggestions |-> TRUE, suggestions |-> v] :
            v \in SuggestionLists \cup OtherSuggestions}

FewPayloads ==
    {EmptyMembers,
     [hasSuggestions |-> TRUE, suggestions |-> [kind |-> "list", items |-> <<>>]],
     [hasSuggestions |-> TRUE,
      suggestions |-> [kind |-> "list",
                       items |-> <<SuggestionObject({"id"}, "null", "none")>>]]}

\* text around the JSON value of a response
Junk == {<<>>, <<"x">>, <<"{">>, <<"}">>}

Cores ==
    { <<"{", "#", "}">>, <<"{", "}">>, <<"5">>, <<>>, <<"x">>,
      <<"[", "{", "#", "}", "]">>,
      <<"[", "{", "#", "}", ",", "{", "#", "}", "]">> }

Responses == {pre \o core \o post : pre \in Junk, core \in Cores, post \in Junk}
                \cup {None}

FewResponses == { <<"{", "#", "}">>, <<"x", "{", "#", "}", "x">> }

----------------------------------------------------------------------------
(* apply_migrations.py                                                     *)
(* A file name is <<n, ext>>: names compare by n, then by extension.       *)

AllRunners == {1, 2}

SqlFiles == {<<n, "sql">> : n \in 1..NumFiles}
OtherFiles == {<<1, "txt">>}
AllFiles == SqlFiles \cup OtherFiles
NoFile == <<0, "none">>

\* f.endswith('.sql')
EndsWithSql(f) == f[2] = "sql"

\* a < b on file names
Before(a, b) ==
    \/ a[1] < b[1]
    \/ a[1] = b[1] /\ a[2] = "sql" /\ b[2] = "txt"

\* [f for f in listing if f.endswith('.sql')]
RECURSIVE OnlySql(_)
OnlySql(listing) ==
    IF listing = <<>> THEN <<>>
    ELSE IF EndsWithSql(Head(listing))
         THEN <<Head(listing)>> \o OnlySql(Tail(listing))
         ELSE OnlySql(Tail(listing))

\* f put at its place in the sorted list s
RECURSIVE Insert(_, _)
Insert(f, s) ==
    IF s = <<>> THEN <<f>>
    ELSE IF Before(f, Head(s)) THEN <<f>> \o s
    ELSE <<Head(s)>> \o Insert(f, Tail(s))

\* the listing left in the order of os.listdir
sorted_not(s) == s

RECURSIVE sorted(_)
sorted(s) == IF s = <<>> THEN <<>> ELSE Insert(Head(s), sorted(Tail(s)))

\* os.listdir: the names of a directory in any order
Listings(d) ==
    {l \in [1..Cardinality(d) -> d] : \A i, j \in DOMAIN l : i # j => l[i] # l[j]}

\* {row[0] for row in cur.fetchall()}
SelectNames(table) == {f \in DOMAIN table : table[f] > 0}

\* the table without its primary key
InsertRow_nokey(table, name) ==
    [raises |-> "none", rows |-> [table EXCEPT ![name] = @ + 1]]

\* INSERT INTO applied_migrations (migration_name): [raises, rows];
\* migration_name is the PRIMARY KEY
InsertRow(table, name) ==
    IF table[name] > 0
    THEN [raises |-> "UniqueViolation", rows |-> table]
    ELSE [raises |-> "none", rows |-> [table EXCEPT ![name] = @ + 1]]

\* the test against applied left out
ShouldApply_always(migration_file, appliedNames) == TRUE

\* if migration_file not in applied
ShouldApply(migration_file, appliedNames) == migration_file \notin appliedNames

\* what cur.execute(migration_sql); conn.commit() may do
ExecOutcomes == {"ok", "DuplicateObject", "ProgrammingError"}

\* DuplicateObject raised again like the other exceptions
ReRaises_all(e) == TRUE

\* every exception of a migration swallowed
ReRaises_none(e) == FALSE

\* the except clauses around the migration: DuplicateObject is swallowed,
\* every other exception is raised again
ReRaises(e) == e # "DuplicateObject"

\* the finally clause closing nothing
Close_leak(handle) == handle

\* cur.close() / conn.close() of the finally clause, for a local that is bound
Close(handle) == IF handle = "none" THEN "none" ELSE "closed"

\* the file the for loop is at
Current(r) == migration_files[r][idx[r]]

Raise(r, e) ==
    /\ exc' = [exc EXCEPT ![r] = e]
    /\ raised' = [raised EXCEPT ![r] = e]
    /\ pc' = [pc EXCEPT ![r] = "except"]

Goto(r, next) ==
    /\ pc' = [pc EXCEPT ![r] = next]
    /\ raised' = [raised EXCEPT ![r] = "none"]
    /\ UNCHANGED exc

MigInit ==
    /\ dir \in SUBSET AllFiles
    /\ tableExists = FALSE
    /\ rows = [f \in SqlFiles |-> 0]
    /\ committedSql = {}
    /\ pc = [r \in AllRunners |-> "idle"]
    /\ db_url = [r \in AllRunners |-> ""]
    /\ conn = [r \in AllRunners |-> "none"]
    /\ cur = [r \in AllRunners |-> "none"]
    /\ migration_files = [r \in AllRunners |-> <<>>]
    /\ applied = [r \in AllRunners |-> {}]
    /\ idx = [r \in AllRunners |-> 0]
    /\ exc = [r \in AllRunners |-> "none"]
    /\ raised = [r \in AllRunners |-> "none"]
    /\ rolledBack = [r \in AllRunners |-> {}]
    /\ lastLog = [r \in AllRunners |-> "none"]
    /\ executed = [r \in AllRunners |-> <<>>]
    /\ recorded = [r \in AllRunners |-> {}]
    /\ runs = [r \in AllRunners |-> 0]
    /\ lastExit = [r \in AllRunners |-> "none"]

\* apply_migrations is called: the locals are fresh, DATABASE_URL is read
Start(r) ==
    /\ pc[r] = "idle"
    /\ runs[r] < MaxRuns
    /\ conn' = [conn EXCEPT ![r] = "none"]
    /\ cur' = [cur EXCEPT ![r] = "none"]
    /\ migration_files' = [migration_files EXCEPT ![r] = <<>>]
    /\ applied' = [applied EXCEPT ![r] = {}]
    /\ idx' = [idx EXCEPT ![r] = 0]
    /\ rolledBack' = [rolledBack EXCEPT ![r] = {}]
    /\ lastLog' = [lastLog EXCEPT ![r] = "none"]
    /\ executed' = [executed EXCEPT ![r] = <<>>]
    /\ recorded' = [recorded EXCEPT ![r] = {}]
    /\ \E url \in {"", "postgres://db"} :
          /\ db_url' = [db_url EXCEPT ![r] = url]
          /\ IF url = ""
             THEN Raise(r, "ValueError")
             ELSE /\ pc' = [pc EXCEPT ![r] = "connect"]
                  /\ exc' = [exc EXCEPT ![r] = "none"]
                  /\ raised' = [raised EXCEPT ![r] = "none"]
    /\ UNCHANGED <<dir, tableExists, rows, committedSql, runs, lastExit>>

\* conn = psycopg2.connect(db_url); cur = conn.cursor()
Connect(r) ==
    /\ pc[r] = "connect"
    /\ \E outcome \in {"ok", "connect raises", "cursor raises"} :
          /\ conn' = [conn EXCEPT ![r] = IF outcome = "connect raises" THEN "none" ELSE "open"]
          /\ cur' = [cur EXCEPT ![r] = IF outcome = "ok" THEN "open" ELSE "none"]
          /\ IF outcome = "ok" THEN Goto(r, "create") ELSE Raise(r, "OperationalError")
    /\ UNCHANGED <<dir, db_url, tableExists, rows, committedSql, migration_files, applied, idx,
                   rolledBack, lastLog, executed, recorded, runs, lastExit>>

\* CREATE TABLE IF NOT EXISTS applied_migrations; conn.commit()
CreateTable(r) ==
    /\ pc[r] = "create"
    /\ \E outcome \in {"ok", "raises"} :
          IF outcome = "ok"
          THEN /\ tableExists' = TRUE
               /\ Goto(r, "list")
          ELSE /\ UNCHANGED tableExists
               /\ Raise(r, "OperationalError")
    /\ UNCHANGED <<dir, db_url, rows, committedSql, conn, cur, migration_files, applied, idx,
                   rolledBack, lastLog, executed, recorded, runs, lastExit>>

\* migration_files = sorted([f for f in os.listdir(migrations_dir) if f.endswith('.sql')])
ListFiles(r) ==
    /\ pc[r] = "list"
    /\ \/ \E listing \in Listings(dir) :
             /\ migration_files' = [migration_files EXCEPT ![r] = sorted(OnlySql(listing))]
             /\ Goto(r, "select")
       \/ /\ UNCHANGED migration_files
          /\ Raise(r, "OSError")
    /\ UNCHANGED <<dir, db_url, tableExists, rows, committedSql, conn, cur, applied, idx,
                   rolledBack, lastLog, executed, recorded, runs, lastExit>>

\* SELECT migration_name FROM applied_migrations
SelectApplied(r) ==
    /\ pc[r] = "select"
    /\ \/ /\ applied' = [applied EXCEPT ![r] = SelectNames(rows)]
          /\ Goto(r, "loop")
       \/ /\ UNCHANGED applied
          /\ Raise(r, "OperationalError")
    /\ UNCHANGED <<dir, db_url, tableExists, rows, committedSql, conn, cur, migration_files, idx,
                   rolledBack, lastLog, executed, recorded, runs, lastExit>>

\* for migration_file in migration_files: if migration_file not in applied
LoopNext(r) ==
    /\ pc[r] = "loop"
    /\ IF idx[r] = Len(migration_files[r])
       THEN /\ lastLog' = [lastLog EXCEPT ![r] = "info: All migrations completed successfully"]
            /\ Goto(r, "finally")
            /\ UNCHANGED idx
       ELSE /\ idx' = [idx EXCEPT ![r] = @ + 1]
            /\ IF ShouldApply(migration_files[r][idx[r] + 1], applied[r])
               THEN /\ lastLog' = [lastLog EXCEPT ![r] = "info: Applying migration"]
                    /\ Goto(r, "read")
               ELSE /\ Goto(r, "loop")
                    /\ UNCHANGED lastLog
    /\ UNCHANGED <<dir, db_url, tableExists, rows, committedSql, conn, cur, migration_files, applied,
                   rolledBack, executed, recorded, runs, lastExit>>

\* with open(...) as f: migration_sql = f.read()
ReadFile(r) ==
    /\ pc[r] = "read"
    /\ \/ Goto(r, "exec")
       \/ Raise(r, "OSError")
    /\ UNCHANGED <<dir, db_url, tableExists, rows, committedSql, conn, cur, migration_files, applied,
                   idx, rolledBack, lastLog, executed, recorded, runs, lastExit>>

\* try: cur.execute(migration_sql); conn.commit()  except ...: conn.rollback()
ExecuteMigration(r) ==
    /\ pc[r] = "exec"
    /\ executed' = [executed EXCEPT ![r] = Append(@, Current(r))]
    /\ \E outcome \in ExecOutcomes :
          IF outcome = "ok"
          THEN /\ committedSql' = committedSql \cup {Current(r)}
               /\ Goto(r, "record")
               /\ UNCHANGED <<rolledBack, lastLog>>
          ELSE /\ rolledBack' = [rolledBack EXCEPT ![r] = @ \cup {Current(r)}]
               /\ UNCHANGED committedSql
               /\ IF ReRaises(outcome)
                  THEN /\ lastLog' = [lastLog EXCEPT ![r] = "error: Error executing migration"]
                       /\ Raise(r, outcome)
                  ELSE /\ lastLog' = [lastLog EXCEPT ![r] = "warning: Skipping duplicate object"]
                       /\ raised' = [raised EXCEPT ![r] = outcome]
                       /\ pc' = [pc EXCEPT ![r] = "record"]
                       /\ UNCHANGED exc
    /\ UNCHANGED <<dir, db_url, tableExists, rows, conn, cur, migration_files, applied, idx,
                   recorded, runs, lastExit>>

\* try: cur.execute("INSERT INTO applied_migrations ..."); conn.commit()
\* except UniqueViolation: conn.rollback()
RecordMigration(r) ==
    /\ pc[r] = "record"
    /\ \/ LET ins == InsertRow(rows, Current(r))
          IN  IF ins.raises = "none"
              THEN /\ rows' = ins.rows
                   /\ recorded' = [recorded EXCEPT ![r] = @ \cup {Current(r)}]
                   /\ lastLog' = [lastLog EXCEPT ![r] = "info: Successfully applied migration"]
                   /\ Goto(r, "loop")
              ELSE /\ lastLog' = [lastLog EXCEPT ![r] =
                                     "warning: Migration was already marked as applied"]
                   /\ raised' = [raised EXCEPT ![r] = ins.raises]
                   /\ pc' = [pc EXCEPT ![r] = "loop"]
                   /\ UNCHANGED <<rows, recorded, exc>>
       \/ /\ Raise(r, "OperationalError")
          /\ UNCHANGED <<rows, recorded, lastLog>>
    /\ UNCHANGED <<dir, db_url, tableExists, committedSql, conn, cur, migration_files, applied, idx,
                   rolledBack, executed, runs, lastExit>>

\* except Exception as e: logger.error(...); raise
OuterExcept(r) ==
    /\ pc[r] = "except"
    /\ lastLog' = [lastLog EXCEPT ![r] = "error: Error applying migrations"]
    /\ pc' = [pc EXCEPT ![r] = "finally"]
    /\ UNCHANGED <<dir, db_url, tableExists, rows, committedSql, conn, cur, migration_files, applied,
                   idx, exc, raised, rolledBack, executed, recorded, runs, lastExit>>

\* finally: close cur and conn if they are bound; the call returns or raises
Finally(r) ==
    /\ pc[r] = "finally"
    /\ cur' = [cur EXCEPT ![r] = Close(@)]
    /\ conn' = [conn EXCEPT ![r] = Close(@)]
    /\ pc' = [pc EXCEPT ![r] = "idle"]
    /\ runs' = [runs EXCEPT ![r] = @ + 1]
    /\ lastExit' = [lastExit EXCEPT ![r] = exc[r]]
    /\ UNCHANGED <<dir, db_url, tableExists, rows, committedSql, migration_files, applied,
                   idx, exc, raised, rolledBack, lastLog, executed, recorded>>

Step(r) ==
    \/ Start(r)
    \/ Connect(r)
    \/ CreateTable(r)
    \/ ListFiles(r)
    \/ SelectApplied(r)
    \/ LoopNext(r)
    \/ ReadFile(r)
    \/ ExecuteMigration(r)
    \/ RecordMigration(r)
    \/ OuterExcept(r)
    \/ Finally(r)

----------------------------------------------------------------------------
(* waste_analysis.py: the calls *)

Sanitize ==
    /\ sanPc = "call"
    /\ sanitized' = sanitize_response(response_text)
    /\ sanPc' = "ret"
    /\ UNCHANGED <<response_text, payload, call_error, genPc, result>>

\* sanitize_response(sanitize_response(s)): the value returned is handed
\* to the function again
SanitizeAgain ==
    /\ sanPc = "ret"
    /\ response_text' = sanitized
    /\ sanitized' = sanitize_response(sanitized)
    /\ sanPc' = "again"
    /\ UNCHANGED <<payload, call_error, genPc, result>>

GenerateSuggestions ==
    /\ genPc = "call"
    /\ result' = generate_suggestions(call_error, response_text, payload)
    /\ genPc' = "ret"
    /\ UNCHANGED <<response_text, payload, call_error, sanPc, sanitized>>

NoResult == Returned(FALSE, NoSuggestions, "")

\* nothing of waste_analysis.py is running
AnalyzerIdle ==
    /\ response_text = <<>>
    /\ payload = EmptyMembers
    /\ call_error = "none"
    /\ sanPc = "idle"
    /\ sanitized = <<>>
    /\ genPc = "idle"
    /\ result = NoResult

\* no run of apply_migrations
MigrationsIdle ==
    /\ MigInit
    /\ dir = {}

----------------------------------------------------------------------------
(* Specifications *)

\* one runner of apply_migrations, called again and again
Init == AnalyzerIdle /\ MigInit
Next == Step(1) /\ UNCHANGED sanVars
Spec == Init /\ [][Next]_vars

\* two runners against the same database
NextConc == (\E r \in AllRunners : runs[r] = 0 /\ Step(r)) /\ UNCHANGED sanVars
SpecConc == Init /\ [][NextConc]_vars

\* sanitize_response on every text of at most MaxLen characters
InitSan ==
    /\ MigrationsIdle
    /\ response_text \in Texts(MaxLen)
    /\ payload = EmptyMembers
    /\ call_error = "none"
    /\ sanPc = "call"
    /\ sanitized = <<>>
    /\ genPc = "idle"
    /\ result = NoResult
NextSan == (Sanitize \/ SanitizeAgain) /\ UNCHANGED migVars
SpecSan == InitSan /\ [][NextSan]_vars

\* generate_suggestions on the bounded model outputs
InitGen ==
    /\ MigrationsIdle
    /\ \/ /\ call_error = "none"
          /\ \/ response_text \in Responses /\ payload \in FewPayloads
             \/ response_text \in FewResponses /\ payload \in Payloads
       \/ /\ call_error \in {"KeyError", "APIError"}
          /\ response_text = <<>>
          /\ payload = EmptyMembers
    /\ sanPc = "idle"
    /\ sanitized = <<>>
    /\ genPc = "call"
    /\ result = NoResult
NextGen == GenerateSuggestions /\ UNCHANGED migVars
SpecGen == InitGen /\ [][NextGen]_vars

----------------------------------------------------------------------------
(* Properties of sanitize_response *)

\* the text has a "{" and a later "}"
HasObject(t) ==
    \E i, j \in 1..Len(t) : i < j /\ t[i] = "{" /\ t[j] = "}"

FirstOpen(t) == CHOOSE i \in 1..Len(t) : t[i] = "{" /\ \A j \in 1..(i - 1) : t[j] # "{"
LastClose(t) == CHOOSE i \in 1..Len(t) : t[i] = "}" /\ \A j \in (i + 1)..Len(t) : t[j] # "}"

\* C1: for a text with a "{" and a later "}", sanitize_response returns
\* exactly the text from the first "{" to the last "}", both included.
C1_FirstToLastBrace ==
    (sanPc = "ret" /\ HasObject(response_text))
        => sanitized = SubSeq(response_text, FirstOpen(response_text),
                              LastClose(response_text))

\* a text with something before the first "{" and after the last "}" was
\* sanitized
C1_Witness ==
    /\ sanPc = "ret"
    /\ HasObject(response_text)
    /\ FirstOpen(response_text) > 1
    /\ LastClose(response_text) < Len(response_text)
    /\ sanitized # response_text

----------------------------------------------------------------------------
(* Properties of generate_suggestions *)

C2_Strings == {"id", "title", "description", "difficulty", "timeRequired",
               "estimatedCost", "videoSearchQuery"}
C2_Lists == {"tools", "materials", "steps", "safetyTips"}

\* what the claim says of the returned suggestion out for the suggestion in
\* of the model output
C2_Backfilled(in, out) ==
    /\ out.kind = "dict"
    /\ C2_Strings \cup C2_Lists \cup {"ecoImpact"} \subseteq DOMAIN out.fields
    /\ \A f \in C2_Strings :
          out.fields[f] = IF f \in DOMAIN in.fields THEN in.fields[f] ELSE "str:"
    /\ \A f \in C2_Lists :
          out.fields[f] = IF f \in DOMAIN in.fields THEN in.fields[f] ELSE "list:[]"
    /\ out.fields["ecoImpact"] \in {"dict:{co2Saved:0.2}", DefaultEcoImpact}
    /\ out.fields["ecoImpact"] =
          IF "ecoImpact" \in DOMAIN in.fields
             /\ in.fields["ecoImpact"] \in {"dict:{co2Saved:0.2}", DefaultEcoImpact}
          THEN in.fields["ecoImpact"]
          ELSE DefaultEcoImpact

\* C2: when generate_suggestions returns success=True, every returned
\* suggestion has the 12 required fields: a missing one is '' (7 string
\* fields) or [] (tools, materials, steps, safetyTips), ecoImpact is a dict
\* (the default when missing or not a dict), a present field keeps its value.
C2_RequiredFieldsBackfilled ==
    (genPc = "ret" /\ result.success) =>
        /\ payload.hasSuggestions
        /\ Len(result.suggestions.items) = Len(payload.suggestions.items)
        /\ \A k \in 1..Len(result.suggestions.items) :
              C2_Backfilled(payload.suggestions.items[k], result.suggestions.items[k])

\* success=True for an output with a suggestion that lacks a list field and
\* another field and whose ecoImpact is not a dict
C2_Witness ==
    /\ genPc = "ret"
    /\ result.success
    /\ \E k \in 1..Len(payload.suggestions.items) :
          LET in == payload.suggestions.items[k].fields
          IN  /\ "steps" \notin DOMAIN in
              /\ "ecoImpact" \in DOMAIN in
              /\ in["ecoImpact"] = "str:a"

\* what json.loads makes of the sanitized response text
C12_Parsed == json_loads(sanitize_response(response_text), payload)

\* the value of 'suggestions' is a list of objects
C12_ListOfObjects(v) ==
    /\ v.kind = "list"
    /\ \A k \in 1..Len(v.items) : v.items[k].kind = "dict"

\* the model output is one the claim lists: not JSON, JSON that is not an
\* object, an object without 'suggestions', 'suggestions' not a list of objects
C12_BadOutput ==
    \/ C12_Parsed.raises # "none"
    \/ C12_Parsed.type # "dict"
    \/ ~C12_Parsed.members.hasSuggestions
    \/ ~C12_ListOfObjects(C12_Parsed.members.suggestions)

\* a failure of the call or a listed output gives success=False and an error
C12_FailureReported ==
    (call_error # "none" \/ C12_BadOutput)
        => ~result.success /\ result.error # ""

\* a sanitized text that is not parseable JSON gives the fixed message
C12_DecodeMessage ==
    (call_error = "none" /\ response_text # None /\ C12_Parsed.raises # "none")
        => result.error = "Failed to generate valid suggestions"

\* success=True only for an object with the key 'suggestions'
C12_SuccessOnlyForObject ==
    result.success
        => /\ call_error = "none"
           /\ C12_Parsed.raises = "none"
           /\ C12_Parsed.type = "dict"
           /\ C12_Parsed.members.hasSuggestions

----------------------------------------------------------------------------
(* Properties of one runner of apply_migrations (Spec) *)

\* the elements of a sequence
Range(s) == {s[k] : k \in 1..Len(s)}

\* C3: a file is executed only if its name was not among the applied names
\* the run selected; once a run has completed without error, the next run
\* over the same files executes no SQL and leaves applied_migrations as it is.
C3_SecondRunAppliesNothing ==
    [][ /\ Range(executed'[1]) \cap applied'[1] = {}
        /\ (runs[1] >= 1 /\ lastExit[1] = "none")
              => /\ executed'[1] = <<>>
                 /\ rows' = rows
                 /\ committedSql' = committedSql ]_vars

\* a run after a run without error went through a list of recorded files
C3_Witness ==
    /\ runs[1] >= 1
    /\ lastExit[1] = "none"
    /\ pc[1] = "finally"
    /\ exc[1] = "none"
    /\ Len(migration_files[1]) >= 2
    /\ \A k \in 1..Len(migration_files[1]) : rows[migration_files[1][k]] = 1

\* the run has just left the statement that executes the migration
LeftExec == pc[1] = "exec" /\ pc'[1] # "exec"

\* C4 as stated: whatever exception the execution of a migration raises,
\* the run logs it, rolls back and goes on with the loop.
C4_EveryExceptionSkipped ==
    [][ (LeftExec /\ raised'[1] # "none")
          => /\ Current(1) \in rolledBack'[1]
             /\ lastLog'[1] \in {"warning: Skipping duplicate object",
                                 "error: Error executing migration"}
             /\ exc'[1] = "none"
             /\ pc'[1] = "record" ]_vars

\* C4, amended: DuplicateObject is logged as a warning, rolled back and
\* the run goes on (recording the file, then the next file); every other
\* exception is logged as an error, rolled back and raised again.
C4_OnlyDuplicateObjectSkipped ==
    [][ /\ (LeftExec /\ raised'[1] = "DuplicateObject")
              => /\ Current(1) \in rolledBack'[1]
                 /\ lastLog'[1] = "warning: Skipping duplicate object"
                 /\ exc'[1] = "none"
                 /\ pc'[1] = "record"
        /\ (LeftExec /\ raised'[1] \notin {"none", "DuplicateObject"})
              => /\ Current(1) \in rolledBack'[1]
                 /\ lastLog'[1] = "error: Error executing migration"
                 /\ exc'[1] = raised'[1]
                 /\ pc'[1] = "except"
        /\ (pc[1] = "record" /\ raised[1] = "DuplicateObject" /\ exc'[1] = "none")
              => pc'[1] = "loop" ]_vars

\* a file is executed in a run that rolled back an earlier file
C4_Witness ==
    /\ pc[1] = "record"
    /\ raised[1] = "none"
    /\ rolledBack[1] # {}
    /\ Current(1) \notin rolledBack[1]
    /\ exc[1] = "none"

\* C5: in a run the unapplied *.sql files are executed in ascending order
\* of name, and a file only after every unapplied file before it was
\* executed and recorded.
C5_AscendingOneAtATime ==
    LET e == executed[1]
    IN  /\ \A k \in 1..Len(e) : e[k][2] = "sql" /\ e[k] \in dir
        /\ \A j, k \in 1..Len(e) : j < k => e[j][1] < e[k][1]
        /\ \A k \in 1..Len(e) :
              \A f \in dir :
                 (f[2] = "sql" /\ f \notin applied[1] /\ f[1] < e[k][1])
                    => /\ \E j \in 1..(k - 1) : e[j] = f
                       /\ f \in recorded[1]

\* a run executed all the files of a directory that also has another file
C5_Witness ==
    /\ Len(executed[1]) >= 3
    /\ dir \cap OtherFiles # {}

\* C6: every name in applied_migrations is the name of a file whose SQL
\* was executed and committed; a file whose SQL was rolled back is not
\* recorded.
C6_RecordedMeansCommitted ==
    /\ \A f \in SqlFiles : rows[f] > 0 => f \in committedSql
    /\ recorded[1] \cap rolledBack[1] = {}

\* the run is leaving with an exception of a migration other than DuplicateObject
MigrationFailed ==
    /\ pc[1] \in {"except", "finally"}
    /\ exc[1] \in ExecOutcomes \ {"ok", "DuplicateObject"}

\* C7: a migration failing with another error than DuplicateObject is
\* rolled back and not recorded, no later file is executed, the exception
\* reaches the caller, and what was committed and recorded before stays.
C7_FailureAborts ==
    [][ /\ (LeftExec /\ raised'[1] \notin {"none", "DuplicateObject"})
              => /\ MigrationFailed'
                 /\ exc'[1] = raised'[1]
                 /\ rows' = rows
                 /\ committedSql' = committedSql
                 /\ recorded' = recorded
        /\ MigrationFailed
              => /\ Current(1) \in rolledBack[1]
                 /\ Current(1) \notin recorded[1]
                 /\ rows[Current(1)] = 0
                 /\ executed[1][Len(executed[1])] = Current(1)
                 /\ executed'[1] = executed[1]
                 /\ rows' = rows
                 /\ committedSql' = committedSql
                 /\ recorded' = recorded
                 /\ \/ MigrationFailed' /\ exc'[1] = exc[1]
                    \/ pc'[1] = "idle" /\ lastExit'[1] = exc[1] ]_vars

\* a call raised the error of its second or later migration to its caller
C7_Witness ==
    /\ pc[1] = "idle"
    /\ lastExit[1] = "ProgrammingError"
    /\ recorded[1] # {}
    /\ Len(executed[1]) < Len(migration_files[1])

\* C9: every call that opened the connection leaves with cursor and
\* connection closed, however it leaves; without DATABASE_URL the call
\* raises ValueError and opens no connection.
C9_ClosedOnEveryExit ==
    /\ (pc[1] = "idle" /\ runs[1] >= 1)
          => /\ conn[1] \in {"none", "closed"}
             /\ cur[1] \in {"none", "closed"}
             /\ (cur[1] = "closed" => conn[1] = "closed")
             /\ (db_url[1] = "" => lastExit[1] = "ValueError")
    /\ (pc[1] # "idle" /\ db_url[1] = "")
          => conn[1] = "none" /\ cur[1] = "none" /\ exc[1] = "ValueError"
    /\ (pc[1] \notin {"idle", "finally"} /\ conn[1] # "none") => conn[1] = "open"

\* a call that failed to read a migration file left with both closed
C9_Witness ==
    /\ pc[1] = "idle"
    /\ lastExit[1] = "OSError"
    /\ idx[1] >= 1
    /\ conn[1] = "closed"
    /\ cur[1] = "closed"

----------------------------------------------------------------------------
(* Properties of two interleaved runs (SpecConc) *)

\* C8: no name is twice in applied_migrations, and a run whose insert
\* meets the row of the other run (UniqueViolation) rolls the insert back
\* and goes on with its loop.
C8_OneRowPerName ==
    /\ [](\A f \in SqlFiles : rows[f] <= 1)
    /\ [][ \A r \in AllRunners :
             /\ (pc[r] = "record" /\ raised'[r] = "UniqueViolation")
                   => /\ rows[Current(r)] > 0
                      /\ rows' = rows
                      /\ exc'[r] = "none"
                      /\ pc'[r] = "loop"
             /\ (pc[r] = "record" /\ pc'[r] = "loop" /\ rows[Current(r)] > 0)
                   => raised'[r] = "UniqueViolation" /\ rows' = rows ]_vars

\* a run met the row the other run had inserted and has files left
C8_Witness ==
    \E r \in AllRunners :
        /\ raised[r] = "UniqueViolation"
        /\ pc[r] = "loop"
        /\ idx[r] < Len(migration_files[r])
        /\ Current(r) \notin recorded[r]
        /\ rows[Current(r)] = 1

====
